---- MODULE Spec2Model ----
(***************************************************************************)
(* A model of the TIPS vision encoder (pytorch/image_encoder.py): the      *)
(* nested-tensor block with its process-wide attention-bias cache, the     *)
(* memory-efficient attention fallback, patch embedding, token assembly    *)
(* and positional-encoding interpolation.                                  *)
(*                                                                         *)
(* Tensors are modelled by their shape and by symbolic token terms: a      *)
(* tensor [b, n, c] is a sequence of b rows of n tokens, a token is a      *)
(* term in prefix notation (a sequence of symbols, each symbol a number),  *)
(* and every per-token layer (norm, mlp, layer scale) wraps the term while *)
(* attention records the keys the query attended to.  Two tensors are      *)
(* equal exactly when the same computation was applied to the same inputs. *)
(***************************************************************************)
EXTENDS Integers, Sequences, FiniteSets, TLC

(* ---------------------------- bounds ----------------------------------- *)
MaxSamples == 2
MaxBatch == 2
MaxSeqLen == 2
MaxCalls == 2
MaxThreads == 2
MaxImg == 4
MaxRegisters == 2
MaxDepth == 4
MaxSubsetBatch == 10

VARIABLES
  XFORMERS_AVAILABLE,   \* module constant set at import time (lines 161-175)
  block,                \* the (NestedTensor)Block object: training flag,
                        \* sample_drop_ratio (percent), layer scale, attn class
  attn_bias_cache,      \* the module-level dict: shape key -> mask object id
  heap,                 \* mask objects by id (a dict holds references)
  ret,                  \* observable outcome of the last completed call
  seen,                 \* history: shape keys of the calls made so far
  th,                   \* concurrent callers of get_attn_bias_and_cat
  vit                   \* the VisionTransformer call under observation

vars == <<XFORMERS_AVAILABLE, block, attn_bias_cache, heap, ret, seen, th, vit>>

(* ---------------------------- helpers ---------------------------------- *)
Min(a, b) == IF a < b THEN a ELSE b

Max(a, b) == IF a > b THEN a ELSE b

RECURSIVE SumSeq(_)
SumSeq(s) == IF s = <<>> THEN 0 ELSE Head(s) + SumSeq(Tail(s))

\* torch.cat / flatten of a list of sequences into one sequence
RECURSIVE Concat(_)
Concat(ss) == IF ss = <<>> THEN <<>> ELSE Head(ss) \o Concat(Tail(ss))

\* the tuple of the values of a function on 1..n (a Python list, built once)
List(f) == f \o <<>>

\* all tuples that take their i-th element from the i-th set
RECURSIVE Product(_)
Product(sets) ==
  IF sets = <<>> THEN {<<>>}
  ELSE {<<h>> \o t : h \in Head(sets), t \in Product(Tail(sets))}

\* [v] * k
Repeat(v, k) == List([i \in 1..k |-> v])

(* ----------------------- symbolic token terms -------------------------- *)
\* the layers and tensor operations a token can go through
OpNames ==
  <<"tok", "norm1", "norm2", "proj", "mlp", "ls1", "ls2", "add", "softmax_attn",
    "mem_eff_attn", "index_add", "scaled_index_add_ls1", "scaled_index_add_ls2",
    "mul_bernoulli">>

OpCode(op) == CHOOSE c \in 1..Len(OpNames) : OpNames[c] = op

\* a symbol: an operation with up to three small arguments (i, r < 10 and
\* j < 100), packed into one number so that terms are sequences of numbers
Sym(op, i, r, j) == OpCode(op) * 10000 + i * 1000 + r * 100 + j

SymOp(sym) == OpNames[sym \div 10000]

SymI(sym) == (sym \div 1000) % 10

SymR(sym) == (sym \div 100) % 10

SymJ(sym) == sym % 100

\* the j-th token of row r of the i-th tensor of an input list
Tok(i, r, j) == <<Sym("tok", i, r, j)>>

\* a per-token layer applied to one token
Layer(name, t) == <<Sym(name, 0, 0, 0)>> \o t

\* an input tensor of shape [b, n, c]: b rows of n tokens
Tensor(i, b, n) == List([r \in 1..b |-> List([j \in 1..n |-> Tok(i, r, j)])])

\* apply a per-token layer to every token of a tensor
MapTensor(name, x) ==
  List([r \in 1..Len(x) |-> List([j \in 1..Len(x[r]) |-> Layer(name, x[r][j])])])

\* x.shape[0] and x.shape[1]
Shape0(x) == Len(x)

Shape1(x) == Len(x[1])

(* --------------- xformers: fmha.BlockDiagonalMask ---------------------- *)
\* a mask object as BlockDiagonalMask.from_seqlens leaves it: _batch_sizes unset
from_seqlens(seqlens) == [seqlens |-> seqlens, batch_sizes |-> <<>>, has_batch_sizes |-> FALSE]

\* q_seqinfo.seqstart_py[t]: the offset at which block t+1 starts
SeqStart(seqlens, t) == SumSeq(SubSeq(seqlens, 1, t))

\* the diagonal block a position of the concatenated sequence belongs to
BlockOf(seqlens, p) ==
  CHOOSE t \in 1..Len(seqlens) : SeqStart(seqlens, t - 1) < p /\ p <= SeqStart(seqlens, t)

\* the shape check of the attention kernel and of split: the mask describes a
\* [1, total, c] tensor whose length is the sum of the sequence lengths
MaskFits(mask, x) == Len(x) = 1 /\ SumSeq(mask.seqlens) = Len(x[1])

\* the positions a query at position p may attend to under the mask
BlockPositions(seqlens, p) ==
  LET t == BlockOf(seqlens, p)
  IN  (SeqStart(seqlens, t - 1) + 1)..SeqStart(seqlens, t)

MaskAllows(mask, p, q) == q \in BlockPositions(mask.seqlens, p)

\* tensor.reshape([bs, -1, ...]) of a chunk of the concatenated sequence
Reshape(chunk, bs) ==
  LET n == Len(chunk) \div bs
  IN  List([r \in 1..bs |-> SubSeq(chunk, (r - 1) * n + 1, r * n)])

\* BlockDiagonalMask.split(tensor): cut the [1, total, c] tensor at the block
\* boundaries, _batch_sizes[i] blocks at a time, and reshape each cut
split(mask, x) ==
  LET bs == IF mask.has_batch_sizes THEN mask.batch_sizes
            ELSE Repeat(1, Len(mask.seqlens))
      it(i) == SumSeq(SubSeq(bs, 1, i - 1))
      lo(i) == SeqStart(mask.seqlens, it(i))
      hi(i) == SeqStart(mask.seqlens, it(i) + bs[i])
  IN  List([i \in 1..Len(bs) |-> Reshape(SubSeq(x[1], lo(i) + 1, hi(i)), bs[i])])

(* ------------------- get_attn_bias_and_cat (455-480) ------------------- *)
\* lines 457-461
BatchSizes(x_list, has_branges, branges) ==
  IF has_branges THEN List([i \in 1..Len(branges) |-> Len(branges[i])])
  ELSE List([i \in 1..Len(x_list) |-> Shape0(x_list[i])])

\* mutant: the key takes the batch size from the tensor, not from branges
AllShapesFromTensor(batch_sizes, x_list) ==
  List([i \in 1..Min(Len(batch_sizes), Len(x_list)) |->
          <<Shape0(x_list[i]), Shape1(x_list[i])>>])

\* line 462: tuple((b, x.shape[1]) for b, x in zip(batch_sizes, x_list))
AllShapes(batch_sizes, x_list) ==
  List([i \in 1..Min(Len(batch_sizes), Len(x_list)) |->
          <<batch_sizes[i], Shape1(x_list[i])>>])

\* mutant: the inner loop over range(b) is lost, one entry per list element
BuildSeqlensOncePerTensor(batch_sizes, x_list) ==
  List([i \in 1..Min(Len(batch_sizes), Len(x_list)) |->
          batch_sizes[i] * Shape1(x_list[i])])

\* lines 464-467: x.shape[1] appended b times, sample after sample
BuildSeqlens(batch_sizes, x_list) ==
  Concat(List([i \in 1..Min(Len(batch_sizes), Len(x_list)) |->
                 Repeat(Shape1(x_list[i]), batch_sizes[i])]))

\* mutant: line 469 is lost, the stored mask has no _batch_sizes
NewAttnBiasWithoutBatchSizes(batch_sizes, x_list) ==
  from_seqlens(BuildSeqlens(batch_sizes, x_list))

\* lines 468-469: the mask object that line 470 stores
NewAttnBias(batch_sizes, x_list) ==
  [from_seqlens(BuildSeqlens(batch_sizes, x_list))
     EXCEPT !.batch_sizes = batch_sizes, !.has_batch_sizes = TRUE]

\* lines 473-475: index_select_cat(...).view(1, -1, c)
IndexSelectCat(x_list, branges) ==
  <<Concat(List([i \in 1..Len(x_list) |->
      Concat(List([k \in 1..Len(branges[i]) |-> x_list[i][branges[i][k]]]))]))>>

\* lines 477-478: every tensor reshaped to [1, b*n, c], then torch.cat on dim 1
CatTensors(x_list) ==
  <<Concat(List([i \in 1..Len(x_list) |-> Concat(x_list[i])]))>>

\* mutant: the membership test of line 463 is lost, every call rebuilds the
\* mask and overwrites the entry
get_attn_bias_and_cat_rebuild(cache, hp, x_list, has_branges, branges) ==
  LET batch_sizes == BatchSizes(x_list, has_branges, branges)
      all_shapes == AllShapes(batch_sizes, x_list)
      hp2 == Append(hp, NewAttnBias(batch_sizes, x_list))
      cache2 == [k \in DOMAIN cache \cup {all_shapes} |->
                   IF k = all_shapes THEN Len(hp2) ELSE cache[k]]
      cat_tensors == IF has_branges THEN IndexSelectCat(x_list, branges)
                     ELSE CatTensors(x_list)
  IN  [cache |-> cache2, heap |-> hp2, key |-> all_shapes,
       bias |-> cache2[all_shapes], cat |-> cat_tensors]

\* the whole function on an explicit cache and heap; .bias is the object id
\* read back from the cache at line 480
get_attn_bias_and_cat(cache, hp, x_list, has_branges, branges) ==
  LET batch_sizes == BatchSizes(x_list, has_branges, branges)
      all_shapes == AllShapes(batch_sizes, x_list)
      miss == all_shapes \notin DOMAIN cache
      hp2 == IF miss THEN Append(hp, NewAttnBias(batch_sizes, x_list)) ELSE hp
      cache2 == IF miss THEN cache @@ (all_shapes :> Len(hp2)) ELSE cache
      cat_tensors == IF has_branges THEN IndexSelectCat(x_list, branges)
                     ELSE CatTensors(x_list)
  IN  [cache |-> cache2, heap |-> hp2, key |-> all_shapes,
       bias |-> cache2[all_shapes], cat |-> cat_tensors]

(* ------------------------ attention (201-264) -------------------------- *)
\* one attention output token: the query and the keys/values it attended to
AttnTerm(kernel, q, kv) == <<Sym(kernel, Len(kv), 0, 0)>> \o q \o Concat(kv)

\* Attention.forward (223-240): softmax attention inside every batch row,
\* then the output projection
AttentionForward(x) ==
  MapTensor("proj",
    List([r \in 1..Len(x) |->
            List([p \in 1..Len(x[r]) |-> AttnTerm("softmax_attn", x[r][p], x[r])])]))

\* xformers memory_efficient_attention(q, k, v, attn_bias): with a mask every
\* query sees the keys of its own diagonal block; without, its whole row
memory_efficient_attention(x, has_bias, mask) ==
  IF has_bias
  THEN List([r \in 1..Len(x) |-> List([p \in 1..Len(x[r]) |->
          LET t == BlockOf(mask.seqlens, p)
          IN  AttnTerm("mem_eff_attn", x[r][p],
                       SubSeq(x[r], SeqStart(mask.seqlens, t - 1) + 1,
                              SeqStart(mask.seqlens, t)))])])
  ELSE List([r \in 1..Len(x) |->
          List([p \in 1..Len(x[r]) |-> AttnTerm("mem_eff_attn", x[r][p], x[r])])])

\* mutant: the raise of line 249 is lost, a bias falls back to dense attention
MemEffAttentionForwardSilent(xf, x, has_bias, mask) ==
  IF ~xf
  THEN [raised |-> "none", out |-> AttentionForward(x)]
  ELSE IF has_bias /\ ~MaskFits(mask, x)
  THEN [raised |-> "ValueError", out |-> <<>>]
  ELSE [raised |-> "none",
        out |-> MapTensor("proj", memory_efficient_attention(x, has_bias, mask))]

\* MemEffAttention.forward (246-264)
MemEffAttentionForward(xf, x, has_bias, mask) ==
  IF ~xf
  THEN IF has_bias
       THEN [raised |-> "AssertionError", out |-> <<>>]
       ELSE [raised |-> "none", out |-> AttentionForward(x)]
  ELSE IF has_bias /\ ~MaskFits(mask, x)
  THEN [raised |-> "ValueError", out |-> <<>>]
  ELSE [raised |-> "none",
        out |-> MapTensor("proj", memory_efficient_attention(x, has_bias, mask))]

(* ----------------------- Block (309-424) ------------------------------- *)
NoMask == from_seqlens(<<>>)

\* x + residual, token by token
Add(x, res) ==
  List([r \in 1..Len(x) |->
          List([j \in 1..Len(x[r]) |-> <<Sym("add", 0, 0, 0)>> \o x[r][j] \o res[r][j]])])

\* self.ls1 / self.ls2: LayerScale if init_values else nn.Identity (339-343, 355-359)
LayerScaleOrIdentity(blk, name, x) == IF blk.init_values THEN MapTensor(name, x) ELSE x

\* self.attn(...) for the configured attn_class, without bias
SelfAttn(xf, blk, x) ==
  IF blk.attn_class = "MemEffAttention"
  THEN MemEffAttentionForward(xf, x, FALSE, NoMask).out
  ELSE AttentionForward(x)

\* Block.forward.attn_residual_func (365-366)
attn_residual_func(xf, blk, x) ==
  LayerScaleOrIdentity(blk, "ls1", SelfAttn(xf, blk, MapTensor("norm1", x)))

\* Block.forward.ffn_residual_func (368-369)
ffn_residual_func(blk, x) ==
  LayerScaleOrIdentity(blk, "ls2", MapTensor("mlp", MapTensor("norm2", x)))

(* ---- Python float arithmetic of line 400 / 421 (IEEE 754 binary64) ------ *)
\* A non-negative float is held as the bits, most significant first, of the
\* integer value * 2^FracBits; a sample_drop_ratio is given in percent, as the
\* decimal literal ratio/100 is written in the source of a caller.
\* the significand: 52 stored bits and the implicit leading one
MantissaBits == 52 + 1

\* enough fractional bits for every float in [0.01, 1] and its multiples
FracBits == MantissaBits + 9

Zeros(k) == List([i \in 1..k |-> 0])

\* v is computed here (an operator argument is otherwise computed where it is
\* first used, which for an accumulator is at the bottom of the recursion)
Computed(v) == v = v

\* the bits of a small natural number
RECURSIVE BitsOfNat(_)
BitsOfNat(n) == IF n = 0 THEN <<>> ELSE Append(BitsOfNat(n \div 2), n % 2)

\* the small natural number of a few bits
RECURSIVE NatOfBits(_)
NatOfBits(bits) ==
  IF bits = <<>> THEN 0
  ELSE 2 * NatOfBits(SubSeq(bits, 1, Len(bits) - 1)) + bits[Len(bits)]

\* without the leading zeros
RECURSIVE Strip(_)
Strip(bits) == IF bits # <<>> /\ Head(bits) = 0 THEN Strip(Tail(bits)) ELSE bits

\* long division by a small divisor d: the quotient bits and the remainder
RECURSIVE DivSmall(_, _, _, _)
DivSmall(bits, d, rem, q) ==
  IF bits = <<>> \/ ~Computed(rem) \/ ~Computed(q) THEN [q |-> q, rem |-> rem]
  ELSE LET cur == 2 * rem + Head(bits)
       IN  DivSmall(Tail(bits), d, cur % d, Append(q, cur \div d))

\* the product with a small factor, from the least significant bit k on;
\* acc holds the bits of the product computed so far
RECURSIVE MulSmall(_, _, _, _, _)
MulSmall(bits, factor, k, carry, acc) ==
  IF k = 0 \/ ~Computed(carry) \/ ~Computed(acc) THEN BitsOfNat(carry) \o acc
  ELSE \* the carry stays below the factor
       MulSmall(bits, factor, k - 1, (bits[k] * factor + carry) \div 2,
                <<(bits[k] * factor + carry) % 2>> \o acc)

\* a - c for two numbers of the same length with a >= c, from bit k on
RECURSIVE SubBits(_, _, _, _, _)
SubBits(a, c, k, borrow, acc) ==
  IF k = 0 \/ ~Computed(borrow) \/ ~Computed(acc) THEN acc
  ELSE SubBits(a, c, k - 1, IF a[k] - c[k] - borrow < 0 THEN 1 ELSE 0,
               <<(a[k] - c[k] - borrow + 2) % 2>> \o acc)

\* bits + 1
IncBits(bits) ==
  IF \A k \in 1..Len(bits) : bits[k] = 1 THEN <<1>> \o Zeros(Len(bits))
  ELSE LET z == CHOOSE k \in 1..Len(bits) :
                  bits[k] = 0 /\ \A k2 \in (k + 1)..Len(bits) : bits[k2] = 1
       IN  SubSeq(bits, 1, z - 1) \o <<1>> \o Zeros(Len(bits) - z)

\* round to nearest, ties to even, to MantissaBits significant bits; sticky
\* tells that the exact value lies above the bits given
RoundToNearestEven(bits0, sticky) ==
  LET bits == Strip(bits0)
      keep == SubSeq(bits, 1, MantissaBits)
      rest == SubSeq(bits, MantissaBits + 1, Len(bits))
      above_half == sticky \/ \E k \in 2..Len(rest) : rest[k] = 1
  IN  IF Len(bits) <= MantissaBits THEN bits
      ELSE IF rest[1] = 1 /\ (above_half \/ keep[MantissaBits] = 1)
      THEN IncBits(keep) \o Zeros(Len(rest))
      ELSE keep \o Zeros(Len(rest))

\* the float of the literal percent/100
FloatOfPercent(percent) ==
  LET d == DivSmall(BitsOfNat(percent) \o Zeros(FracBits), 100, 0, <<>>)
  IN  RoundToNearestEven(d.q, d.rem # 0)

\* 1 - r for a float r in [0, 1]
OneMinus(r) ==
  LET one == <<1>> \o Zeros(FracBits)
      sub == Zeros(Len(one) - Len(r)) \o r
  IN  IF Computed(sub)
      THEN RoundToNearestEven(SubBits(one, sub, Len(one), 0, <<>>), FALSE)
      ELSE <<>>

\* b * f for an int b and a float f
IntTimesFloat(b, f) ==
  IF Computed(f) THEN RoundToNearestEven(MulSmall(f, b, Len(f), 0, <<>>), FALSE) ELSE <<>>

\* int(f) of a non-negative float
IntOfFloat(f) == NatOfBits(SubSeq(f, 1, Len(f) - FracBits))

\* line 400 / 421: max(int(b * (1 - sample_drop_ratio)), 1), ratio in percent
SampleSubsetSize(b, ratio) ==
  Max(IntOfFloat(IntTimesFloat(b, OneMinus(FloatOfPercent(ratio)))), 1)

\* the drop rates tried, in percent: the literals 0.0, 0.1, ..., 1.0
SubsetRatios == {10 * k : k \in 0..10}

\* sample_subset_size of lines 400 and 421 for every batch size and rate
\* tried, computed once
SubsetSizeTable ==
  [b \in 1..MaxSubsetBatch |-> [ratio \in SubsetRatios |-> SampleSubsetSize(b, ratio)]]

\* torch.randperm(b)[:sample_subset_size]: the possible draws
Branges(b, ratio) ==
  {List(s) : s \in {f \in [1..SubsetSizeTable[b][ratio] -> 1..b] :
                     \A k1, k2 \in DOMAIN f : k1 # k2 => f[k1] # f[k2]}}

\* x[brange]
IndexSelect(x, brange) == List([k \in 1..Len(brange) |-> x[brange[k]]])

\* torch.index_add(x_flat, 0, brange, residual, alpha=b/size) and
\* scaled_index_add(x, brange, residual, scaling=gamma, alpha=b/size):
\* row brange[k] receives alpha * residual[k] for every k, other rows are kept
IndexAdd(op, x, brange, residual, num, den) ==
  LET addrow(row, k) ==
        List([j \in 1..Len(row) |-> <<Sym(op, num, den, 0)>> \o row[j] \o residual[k][j]])
      RECURSIVE acc(_, _)
      acc(row_r, k) ==
        IF k > Len(brange) THEN row_r[2]
        ELSE acc(<<row_r[1], IF brange[k] = row_r[1] THEN addrow(row_r[2], k) ELSE row_r[2]>>, k + 1)
  IN  List([r \in 1..Len(x) |-> acc(<<r, x[r]>>, 1)])

\* mutant: the residual is added without the scale b / sample_subset_size
drop_add_residual_stochastic_depth_unscaled(x, brange, residual) ==
  IndexAdd("index_add", x, brange, residual, 1, 1)

\* drop_add_residual_stochastic_depth (392-416) for the draw brange
drop_add_residual_stochastic_depth(x, brange, residual) ==
  IndexAdd("index_add", x, brange, residual, Len(x), Len(brange))

\* bernoulli_(keep_prob) (291): the weight, in percent, of each outcome of
\* one sample's draw
BernoulliWeight(keep, drop_prob) == IF keep = 1 THEN 100 - drop_prob ELSE drop_prob

\* drop_path_impl (284-295) for the Bernoulli draw keep (one 0/1 per sample):
\* the symbol holds the draw and the keep_prob (percent) it was divided by, 0
\* when it was not divided
drop_path_impl(x, drop_prob, is_training, keep) ==
  IF drop_prob = 0 \/ ~is_training THEN x
  ELSE List([r \in 1..Len(x) |-> List([j \in 1..Len(x[r]) |->
          <<Sym("mul_bernoulli", keep[r], 0, 100 - drop_prob)>> \o x[r][j]])])

\* Block.forward (364-389); rnd holds the random draws of the call
BlockForward(xf, blk, x, rnd) ==
  IF blk.training /\ blk.sample_drop_ratio > 10
  THEN LET x1 == drop_add_residual_stochastic_depth(x, rnd.br1,
                   attn_residual_func(xf, blk, IndexSelect(x, rnd.br1)))
       IN  drop_add_residual_stochastic_depth(x1, rnd.br2,
                   ffn_residual_func(blk, IndexSelect(x1, rnd.br2)))
  ELSE IF blk.training /\ blk.sample_drop_ratio > 0
  THEN LET x1 == Add(x, drop_path_impl(attn_residual_func(xf, blk, x),
                                       blk.sample_drop_ratio, blk.training, rnd.keep1))
       IN  Add(x1, drop_path_impl(ffn_residual_func(blk, x1),
                                  blk.sample_drop_ratio, blk.training, rnd.keep2))
  ELSE LET x1 == Add(x, attn_residual_func(xf, blk, x))
       IN  Add(x1, ffn_residual_func(blk, x1))

\* mutant: the residual rows are added to the first rows of x, not to the
\* rows the subset names
add_residual_first_rows(x, brange, residual, num, den, scaling) ==
  IF scaling = ""
  THEN IndexAdd("index_add", x, List([k \in 1..Len(brange) |-> k]), residual, num, den)
  ELSE IndexAdd("scaled_index_add_" \o scaling, x, List([k \in 1..Len(brange) |-> k]),
                residual, num, den)

(* ------------------ NestedTensorBlock (427-570) ------------------------ *)
\* add_residual (427-449): scaling is "" for scaling_vector=None, else the
\* layer scale whose gamma is passed
add_residual(x, brange, residual, num, den, scaling) ==
  IF scaling = ""
  THEN IndexAdd("index_add", x, brange, residual, num, den)
  ELSE IndexAdd("scaled_index_add_" \o scaling, x, brange, residual, num, den)

\* the residual functions of forward_nested (524-529, 550-555) on the
\* concatenated tensor; with_ls tells the two branches apart
nested_residual(xf, blk, kind, x_cat, mask, with_ls) ==
  IF kind = "attn"
  THEN LET a == MemEffAttentionForward(xf, MapTensor("norm1", x_cat), TRUE, mask)
       IN  IF a.raised # "none" THEN a
           ELSE [raised |-> "none",
                 out |-> IF with_ls THEN LayerScaleOrIdentity(blk, "ls1", a.out) ELSE a.out]
  ELSE LET m == MapTensor("mlp", MapTensor("norm2", x_cat))
       IN  [raised |-> "none",
            out |-> IF with_ls THEN LayerScaleOrIdentity(blk, "ls2", m) ELSE m]

\* drop_add_residual_stochastic_depth_list (483-512) for the draws branges
drop_add_residual_stochastic_depth_list(cache, hp, xf, blk, x_list, kind, branges, scaling) ==
  LET g == get_attn_bias_and_cat(cache, hp, x_list, TRUE, branges)
      mask == g.heap[g.bias]
      res == nested_residual(xf, blk, kind, g.cat, mask, FALSE)
  IN  IF res.raised # "none"
      THEN [cache |-> g.cache, heap |-> g.heap, raised |-> res.raised, out |-> <<>>]
      ELSE IF ~MaskFits(mask, res.out)
      THEN [cache |-> g.cache, heap |-> g.heap, raised |-> "AssertionError", out |-> <<>>]
      ELSE LET residual_list == split(mask, res.out)
           IN  [cache |-> g.cache, heap |-> g.heap, raised |-> "none",
                out |-> List([i \in 1..Len(x_list) |->
                           add_residual(x_list[i], branges[i], residual_list[i],
                                        Shape0(x_list[i]), Len(branges[i]), scaling)])]

\* NestedTensorBlock.forward_nested (518-560); rnd.brs1 and rnd.brs2 are the
\* draws of get_branges_scales for the two residual branches
forward_nested(cache, hp, xf, blk, x_list, rnd) ==
  IF blk.attn_class # "MemEffAttention"
  THEN [cache |-> cache, heap |-> hp, raised |-> "AssertionError", out |-> <<>>]
  ELSE IF blk.training /\ blk.sample_drop_ratio > 0
  THEN LET s1 == drop_add_residual_stochastic_depth_list(cache, hp, xf, blk, x_list,
                   "attn", rnd.brs1, IF blk.init_values THEN "ls1" ELSE "")
       IN  IF s1.raised # "none" THEN s1
           ELSE drop_add_residual_stochastic_depth_list(s1.cache, s1.heap, xf, blk, s1.out,
                   "ffn", rnd.brs2, IF blk.init_values THEN "ls2" ELSE "")
  ELSE LET g == get_attn_bias_and_cat(cache, hp, x_list, FALSE, <<>>)
           mask == g.heap[g.bias]
           a == nested_residual(xf, blk, "attn", g.cat, mask, TRUE)
       IN  IF a.raised # "none"
           THEN [cache |-> g.cache, heap |-> g.heap, raised |-> a.raised, out |-> <<>>]
           ELSE LET x1 == Add(g.cat, a.out)
                    x2 == Add(x1, nested_residual(xf, blk, "ffn", x1, mask, TRUE).out)
                IN  IF ~MaskFits(mask, x2)
                    THEN [cache |-> g.cache, heap |-> g.heap,
                          raised |-> "AssertionError", out |-> <<>>]
                    ELSE [cache |-> g.cache, heap |-> g.heap, raised |-> "none",
                          out |-> split(mask, x2)]

\* NestedTensorBlock.forward (562-570) on a list
NestedTensorBlockForwardList(cache, hp, xf, blk, x_list, rnd) ==
  IF ~xf
  THEN [cache |-> cache, heap |-> hp, raised |-> "AssertionError", out |-> <<>>]
  ELSE forward_nested(cache, hp, xf, blk, x_list, rnd)

(* ------------------------- inputs and state ---------------------------- *)
Shapes == (1..MaxBatch) \X (1..MaxSeqLen)

\* the input lists: 1..MaxSamples tensors of any batch size and length
XLists ==
  UNION {{List([i \in 1..k |-> Tensor(i, sh[i][1], sh[i][2])]) : sh \in [1..k -> Shapes]} :
           k \in 1..MaxSamples}

\* one tensor [b, n, c]
Tensors == {Tensor(1, sh[1], sh[2]) : sh \in Shapes}

DropRatios == {0, 10, 50}

Blocks ==
  [training : BOOLEAN, sample_drop_ratio : DropRatios, init_values : BOOLEAN,
   attn_class : {"Attention", "MemEffAttention"}]

DefaultBlock ==
  [training |-> FALSE, sample_drop_ratio |-> 0, init_values |-> FALSE,
   attn_class |-> "MemEffAttention"]

NoRnd == [br1 |-> <<>>, br2 |-> <<>>, keep1 |-> <<>>, keep2 |-> <<>>,
          brs1 |-> <<>>, brs2 |-> <<>>]

EmptyCache == [k \in {} |-> 0]

NoRet ==
  [op |-> "none", x_list |-> <<>>, has_branges |-> FALSE, branges |-> <<>>,
   rnd |-> NoRnd, has_bias |-> FALSE, mask |-> NoMask, key |-> <<>>,
   raised |-> "none", bias |-> 0, cat |-> <<>>, out |-> <<>>]

NoVit == [op |-> "none"]

\* the state shared by every specification right after import
InitCommon ==
  /\ attn_bias_cache = EmptyCache
  /\ heap = <<>>
  /\ ret = NoRet
  /\ seen = {}

(* ------------- direct calls of get_attn_bias_and_cat ------------------- *)
\* the shape signature of a call: per list element, the number of rows that
\* enter the concatenation and the sequence length
ShapeSignature(x_list, has_branges, branges) ==
  [i \in 1..Len(x_list) |->
     <<IF has_branges THEN Len(branges[i]) ELSE Len(x_list[i]), Len(x_list[i][1])>>]

\* the model stops creating masks after MaxCalls of them: a call is made when
\* its key is cached or the bound is not reached
CacheHasRoom(x_list, has_branges, branges) ==
  \/ Len(heap) < MaxCalls
  \/ AllShapes(BatchSizes(x_list, has_branges, branges), x_list) \in DOMAIN attn_bias_cache

\* one call, run to completion.  Without xformers the names fmha and
\* index_select_cat are unbound (164, 171-173) and the call raises NameError
GetAttnBiasAndCatCall(x_list, has_branges, branges) ==
  \E g \in {get_attn_bias_and_cat(attn_bias_cache, heap, x_list, has_branges, branges)} :
      IF ~XFORMERS_AVAILABLE
      THEN /\ ret' = [NoRet EXCEPT !.op = "get_attn_bias_and_cat", !.x_list = x_list,
                        !.has_branges = has_branges, !.branges = branges,
                        !.raised = "NameError"]
           /\ UNCHANGED <<attn_bias_cache, heap, seen>>
      ELSE /\ Len(g.heap) <= MaxCalls
           /\ attn_bias_cache' = g.cache
           /\ heap' = g.heap
           /\ seen' = seen \cup {ShapeSignature(x_list, has_branges, branges)}
           /\ ret' = [NoRet EXCEPT !.op = "get_attn_bias_and_cat", !.x_list = x_list,
                        !.has_branges = has_branges, !.branges = branges,
                        !.key = g.key, !.bias = g.bias, !.cat = g.cat]

\* the sizes the index tensors of a call can have: 1..b rows of each tensor
BrangeSizes(x_list) ==
  Product(List([i \in 1..Len(x_list) |-> 1..Shape0(x_list[i])]))

\* an index tensor of k distinct rows of a tensor with b rows, as a caller
\* passes it: the first k entries of a permutation of the rows, here of the
\* reversed order (the key and the mask read its size only, lines 457-467)
PermutationPrefix(b, k) == List([q \in 1..k |-> b + 1 - q])

\* the index tensors of these sizes
BrangesOfSizes(x_list, sz) ==
  List([i \in 1..Len(x_list) |-> PermutationPrefix(Shape0(x_list[i]), sz[i])])

CallPlain ==
  \E x_list \in XLists :
     /\ CacheHasRoom(x_list, FALSE, <<>>)
     /\ GetAttnBiasAndCatCall(x_list, FALSE, <<>>)
     /\ UNCHANGED <<XFORMERS_AVAILABLE, block, th, vit>>

CallWithBranges ==
  \E x_list \in XLists : \E sz \in BrangeSizes(x_list) :
     /\ CacheHasRoom(x_list, TRUE, List([i \in 1..Len(x_list) |-> Repeat(1, sz[i])]))
     /\ GetAttnBiasAndCatCall(x_list, TRUE, BrangesOfSizes(x_list, sz))
     /\ UNCHANGED <<XFORMERS_AVAILABLE, block, th, vit>>

InitCache ==
  /\ InitCommon
  /\ XFORMERS_AVAILABLE \in BOOLEAN
  /\ block = DefaultBlock
  /\ th = <<>>
  /\ vit = NoVit

NextCache == CallPlain \/ CallWithBranges

SpecCache == InitCache /\ [][NextCache]_vars

(* --------------------- calls on a block -------------------------------- *)
\* the random draws one Block.forward call on x can make
BlockDraws(blk, x) ==
  IF blk.training /\ blk.sample_drop_ratio > 10
  THEN {[NoRnd EXCEPT !.br1 = b1, !.br2 = b2] :
          b1 \in Branges(Shape0(x), blk.sample_drop_ratio),
          b2 \in Branges(Shape0(x), blk.sample_drop_ratio)}
  ELSE IF blk.training /\ blk.sample_drop_ratio > 0
  THEN {[NoRnd EXCEPT !.keep1 = k1, !.keep2 = k2] :
          k1 \in Product(Repeat({0, 1}, Shape0(x))),
          k2 \in Product(Repeat({0, 1}, Shape0(x)))}
  ELSE {NoRnd}

\* get_branges_scales (419-424) over a list: one draw per tensor
BrangesOfList(blk, x_list) ==
  Product(List([i \in 1..Len(x_list) |-> Branges(Shape0(x_list[i]), blk.sample_drop_ratio)]))

\* the random draws one forward_nested call on x_list can make: none unless
\* the call reaches the stochastic-depth branch (line 522)
NestedDraws(xf, blk, x_list) ==
  IF xf /\ blk.attn_class = "MemEffAttention" /\ blk.training /\ blk.sample_drop_ratio > 0
  THEN {[NoRnd EXCEPT !.brs1 = b1, !.brs2 = b2] :
          b1 \in BrangesOfList(blk, x_list), b2 \in BrangesOfList(blk, x_list)}
  ELSE {NoRnd}

\* NestedTensorBlock.forward (562-564) / Block.forward on one tensor
BlockForwardCall ==
  \E x \in Tensors : \E rnd \in BlockDraws(block, x) :
     /\ ret' = [NoRet EXCEPT !.op = "Block.forward", !.x_list = <<x>>, !.rnd = rnd,
                  !.out = <<BlockForward(XFORMERS_AVAILABLE, block, x, rnd)>>]
     /\ UNCHANGED <<XFORMERS_AVAILABLE, block, attn_bias_cache, heap, seen, th, vit>>

\* NestedTensorBlock.forward (565-568) on a list of tensors
NestedForwardCall ==
  \E x_list \in XLists : \E rnd \in NestedDraws(XFORMERS_AVAILABLE, block, x_list) :
     /\ ~XFORMERS_AVAILABLE \/ CacheHasRoom(x_list, rnd.brs1 # <<>>, rnd.brs1)
     /\ \E f \in {NestedTensorBlockForwardList(attn_bias_cache, heap, XFORMERS_AVAILABLE,
                                                block, x_list, rnd)} :
         /\ Len(f.heap) <= MaxCalls
         /\ attn_bias_cache' = f.cache
         /\ heap' = f.heap
         /\ ret' = [NoRet EXCEPT !.op = "NestedTensorBlock.forward", !.x_list = x_list,
                      !.rnd = rnd, !.raised = f.raised, !.out = f.out]
         /\ UNCHANGED <<XFORMERS_AVAILABLE, block, seen, th, vit>>

\* the masks a caller may pass as attn_bias
BiasMasks == {from_seqlens(<<n>>) : n \in 1..MaxSeqLen}

\* MemEffAttention.forward (246-264) on one tensor, with or without attn_bias
MemEffAttentionCall ==
  \E x \in Tensors : \E has_bias \in BOOLEAN :
    \E mask \in IF has_bias THEN BiasMasks ELSE {NoMask} :
     \E a \in {MemEffAttentionForward(XFORMERS_AVAILABLE, x, has_bias, mask)} :
         /\ ret' = [NoRet EXCEPT !.op = "MemEffAttention.forward", !.x_list = <<x>>,
                      !.has_bias = has_bias, !.mask = mask, !.raised = a.raised,
                      !.out = <<a.out>>]
         /\ UNCHANGED <<XFORMERS_AVAILABLE, block, attn_bias_cache, heap, seen, th, vit>>

\* a process that calls a NestedTensorBlock on lists of tensors outside the
\* stochastic-depth branch: in eval mode with a drop rate configured, or in
\* training mode with drop rate 0
Init ==
  /\ InitCommon
  /\ XFORMERS_AVAILABLE \in BOOLEAN
  /\ block \in {b \in Blocks : b.training = (b.sample_drop_ratio = 0)}
  /\ th = <<>>
  /\ vit = NoVit

Next == NestedForwardCall

Spec == Init /\ [][Next]_vars

\* a process started without xformers (XFORMERS_DISABLED set, or the import
\* failed) that calls the attention layer and the block
InitNoXformers ==
  /\ InitCommon
  /\ XFORMERS_AVAILABLE = FALSE
  /\ block \in Blocks
  /\ th = <<>>
  /\ vit = NoVit

NextNoXformers == BlockForwardCall \/ NestedForwardCall \/ MemEffAttentionCall

SpecNoXformers == InitNoXformers /\ [][NextNoXformers]_vars

\* a training process that calls Block.forward on tensors with a drop rate
\* configured
InitBlockTrain ==
  /\ InitCommon
  /\ XFORMERS_AVAILABLE \in BOOLEAN
  /\ block \in {b \in Blocks : b.training /\ b.sample_drop_ratio > 0}
  /\ th = <<>>
  /\ vit = NoVit

NextBlockTrain == BlockForwardCall

SpecBlockTrain == InitBlockTrain /\ [][NextBlockTrain]_vars

\* a process with xformers that calls a NestedTensorBlock (the block_fn of the
\* nested-tensor models: MemEffAttention, no layer scale) on tensors and on
\* lists, in training or not, at any drop rate
InitTrain ==
  /\ InitCommon
  /\ XFORMERS_AVAILABLE = TRUE
  /\ block \in {b \in Blocks : b.attn_class = "MemEffAttention" /\ ~b.init_values}
  /\ th = <<>>
  /\ vit = NoVit

NextTrain == BlockForwardCall \/ NestedForwardCall

SpecTrain == InitTrain /\ [][NextTrain]_vars

(* ------- direct calls of drop_add_residual_stochastic_depth_list ------- *)
\* get_branges_scales (line 492) over the list at rate sample_drop_ratio
ListBranges(x_list, sample_drop_ratio) ==
  Product(List([i \in 1..Len(x_list) |-> Branges(Shape0(x_list[i]), sample_drop_ratio)]))

\* the residual functions forward_nested passes (524-529) and the scaling
\* vector that goes with each: None or the gamma of ls1 / ls2
ResidualKinds == {"attn", "ffn"}

ScalingVectors(kind) == {"", IF kind = "attn" THEN "ls1" ELSE "ls2"}

\* a fresh process with xformers about to call the function once
InitDropList ==
  /\ attn_bias_cache = EmptyCache
  /\ heap = <<>>
  /\ seen = {}
  /\ XFORMERS_AVAILABLE = TRUE
  /\ block = [DefaultBlock EXCEPT !.training = TRUE]
  /\ th = <<>>
  /\ vit = NoVit
  /\ \E x_list \in XLists : \E ratio \in DropRatios : \E kind \in ResidualKinds :
       \E sc \in ScalingVectors(kind) : \E brs \in ListBranges(x_list, ratio) :
         ret = [op |-> "pending", x_list |-> x_list, sample_drop_ratio |-> ratio,
                kind |-> kind, scaling |-> sc, branges |-> brs, raised |-> "none",
                out |-> <<>>]

\* drop_add_residual_stochastic_depth_list (483-512) on the pending arguments
DropAddResidualListCall ==
  /\ ret.op = "pending"
  /\ \E f \in {drop_add_residual_stochastic_depth_list(attn_bias_cache, heap,
                    XFORMERS_AVAILABLE, block, ret.x_list, ret.kind, ret.branges,
                    ret.scaling)} :
       /\ attn_bias_cache' = f.cache
       /\ heap' = f.heap
       /\ ret' = [ret EXCEPT !.op = "drop_add_residual_stochastic_depth_list",
                    !.raised = f.raised, !.out = f.out]
  /\ UNCHANGED <<XFORMERS_AVAILABLE, block, seen, th, vit>>

NextDropList == DropAddResidualListCall

SpecDropList == InitDropList /\ [][NextDropList]_vars


(* ------------ concurrent calls of get_attn_bias_and_cat ---------------- *)
\* Each caller runs lines 455-480 one statement at a time; the interpreter
\* runs one statement of one caller at a time.  A caller holds its mask in
\* the local attn_bias (th[t].obj) until line 470 stores it in the dict.
IdleThread ==
  [pc |-> "idle", x_list |-> <<>>, has_branges |-> FALSE, branges |-> <<>>,
   batch_sizes |-> <<>>, all_shapes |-> <<>>, obj |-> 0, cat |-> <<>>, bias |-> 0]

\* the inputs of the concurrent callers: one tensor, all rows or some rows
ThreadInputs ==
  {[x_list |-> <<x>>, has_branges |-> FALSE, branges |-> <<>>] : x \in Tensors}
  \cup
  UNION {{[x_list |-> <<x>>, has_branges |-> TRUE,
           branges |-> <<PermutationPrefix(Shape0(x), k)>>] : k \in 1..Shape0(x)} :
            x \in Tensors}

\* mutant: lines 469 and 470 are swapped, the mask is stored before
\* _batch_sizes is set
StatementAfterPublishFirst(pc) ==
  CASE pc = "from_seqlens" -> "publish"
    [] pc = "publish" -> "set_batch_sizes"
    [] pc = "set_batch_sizes" -> "cat"
    [] pc = "cat" -> "return"
    [] pc = "return" -> "done"

\* the statement that follows a statement inside the call (lines 468-480)
StatementAfter(pc) ==
  CASE pc = "from_seqlens" -> "set_batch_sizes"
    [] pc = "set_batch_sizes" -> "publish"
    [] pc = "publish" -> "cat"
    [] pc = "cat" -> "return"
    [] pc = "return" -> "done"

\* lines 457-462: the call starts and computes its key
ThreadCall(t) ==
  /\ th[t].pc = "idle"
  /\ \E in \in ThreadInputs :
       \E bs \in {BatchSizes(in.x_list, in.has_branges, in.branges)} :
          th' = [th EXCEPT ![t] =
                   [IdleThread EXCEPT !.pc = "check", !.x_list = in.x_list,
                      !.has_branges = in.has_branges, !.branges = in.branges,
                      !.batch_sizes = bs, !.all_shapes = AllShapes(bs, in.x_list)]]
  /\ UNCHANGED <<XFORMERS_AVAILABLE, block, attn_bias_cache, heap, ret, seen, vit>>

\* line 463: the membership test
ThreadCheck(t) ==
  /\ th[t].pc = "check"
  /\ th' = [th EXCEPT ![t].pc =
              IF th[t].all_shapes \notin DOMAIN attn_bias_cache
              THEN "from_seqlens" ELSE "cat"]
  /\ UNCHANGED <<XFORMERS_AVAILABLE, block, attn_bias_cache, heap, ret, seen, vit>>

\* lines 464-468: the mask object is created, held by the caller only
ThreadFromSeqlens(t) ==
  /\ th[t].pc = "from_seqlens"
  /\ heap' = Append(heap, from_seqlens(BuildSeqlens(th[t].batch_sizes, th[t].x_list)))
  /\ th' = [th EXCEPT ![t].obj = Len(heap) + 1, ![t].pc = StatementAfter("from_seqlens")]
  /\ UNCHANGED <<XFORMERS_AVAILABLE, block, attn_bias_cache, ret, seen, vit>>

\* line 469: attn_bias._batch_sizes = batch_sizes
ThreadSetBatchSizes(t) ==
  /\ th[t].pc = "set_batch_sizes"
  /\ heap' = [heap EXCEPT ![th[t].obj].batch_sizes = th[t].batch_sizes,
                          ![th[t].obj].has_batch_sizes = TRUE]
  /\ th' = [th EXCEPT ![t].pc = StatementAfter("set_batch_sizes")]
  /\ UNCHANGED <<XFORMERS_AVAILABLE, block, attn_bias_cache, ret, seen, vit>>

\* line 470: attn_bias_cache[all_shapes] = attn_bias
ThreadPublish(t) ==
  /\ th[t].pc = "publish"
  /\ attn_bias_cache' =
       [k \in DOMAIN attn_bias_cache \cup {th[t].all_shapes} |->
          IF k = th[t].all_shapes THEN th[t].obj ELSE attn_bias_cache[k]]
  /\ th' = [th EXCEPT ![t].pc = StatementAfter("publish")]
  /\ UNCHANGED <<XFORMERS_AVAILABLE, block, heap, ret, seen, vit>>

\* lines 472-478: the concatenation, on the caller's own tensors
ThreadCat(t) ==
  /\ th[t].pc = "cat"
  /\ th' = [th EXCEPT ![t].cat = IF th[t].has_branges
                                 THEN IndexSelectCat(th[t].x_list, th[t].branges)
                                 ELSE CatTensors(th[t].x_list),
                      ![t].pc = StatementAfter("cat")]
  /\ UNCHANGED <<XFORMERS_AVAILABLE, block, attn_bias_cache, heap, ret, seen, vit>>

\* line 480: the entry is read back from the dict and returned
ThreadReturn(t) ==
  /\ th[t].pc = "return"
  /\ th' = [th EXCEPT ![t].bias = attn_bias_cache[th[t].all_shapes],
                      ![t].pc = StatementAfter("return")]
  /\ UNCHANGED <<XFORMERS_AVAILABLE, block, attn_bias_cache, heap, ret, seen, vit>>

InitConc ==
  /\ InitCommon
  /\ XFORMERS_AVAILABLE = TRUE
  /\ block = DefaultBlock
  /\ th = [t \in 1..MaxThreads |-> IdleThread]
  /\ vit = NoVit

NextConc ==
  \E t \in 1..MaxThreads :
     \/ ThreadCall(t)
     \/ ThreadCheck(t)
     \/ ThreadFromSeqlens(t)
     \/ ThreadSetBatchSizes(t)
     \/ ThreadPublish(t)
     \/ ThreadCat(t)
     \/ ThreadReturn(t)

SpecConc == InitConc /\ [][NextConc]_vars

(* ---------------- PatchEmbed (58-120) --------------------------------- *)
\* make_2tuple (58-64) of an int
make_2tuple(x) == <<x, x>>

\* PatchEmbed.__init__ (81-91): a layer is its patch size, its grid and flags
PatchEmbedInit(image_hw, patch_hw, embed_dim, flatten_embedding) ==
  [img_size |-> image_hw, patch_size |-> patch_hw,
   patches_resolution |-> <<image_hw[1] \div patch_hw[1], image_hw[2] \div patch_hw[2]>>,
   num_patches |-> (image_hw[1] \div patch_hw[1]) * (image_hw[2] \div patch_hw[2]),
   embed_dim |-> embed_dim, flatten_embedding |-> flatten_embedding]

\* the output length of nn.Conv2d along one axis for kernel = stride = k,
\* no padding, no dilation
ConvOut(size, k) == (size - k) \div k + 1

\* mutant: the assertion on the width (110-112) is lost
PatchEmbedForwardNoWidthCheck(pe, h, w) ==
  IF h % pe.patch_size[1] # 0
  THEN [raised |-> "AssertionError", grid |-> <<0, 0>>, tokens |-> <<>>]
  ELSE LET gh == ConvOut(h, pe.patch_size[1])
           gw == ConvOut(w, pe.patch_size[2])
       IN  [raised |-> "none", grid |-> <<gh, gw>>,
            tokens |-> List([k \in 1..(gh * gw) |-> [kind |-> "patch", idx |-> k, pos |-> 0]])]

\* PatchEmbed.forward (103-120) on an image of height h and width w: the
\* tokens of one image, in row-major order of the patch grid
PatchEmbedForward(pe, h, w) ==
  IF h % pe.patch_size[1] # 0
  THEN [raised |-> "AssertionError", grid |-> <<0, 0>>, tokens |-> <<>>]
  ELSE IF w % pe.patch_size[2] # 0
  THEN [raised |-> "AssertionError", grid |-> <<0, 0>>, tokens |-> <<>>]
  ELSE LET gh == ConvOut(h, pe.patch_size[1])
           gw == ConvOut(w, pe.patch_size[2])
       IN  [raised |-> "none", grid |-> <<gh, gw>>,
            tokens |-> List([k \in 1..(gh * gw) |-> [kind |-> "patch", idx |-> k, pos |-> 0]])]

\* the shape of the tensor PatchEmbed.forward returns (116-119)
PatchEmbedShape(pe, b, f) ==
  IF pe.flatten_embedding THEN <<b, Len(f.tokens), pe.embed_dim>>
  ELSE <<b, f.grid[1], f.grid[2], pe.embed_dim>>

(* --------------- VisionTransformer (605-923) --------------------------- *)
\* VisionTransformer.__init__ (661-692): the fields the token assembly reads.
\* interpolate_offset is kept in tenths (0.1 is 1, 0 disables it)
VisionTransformerInit(img_size, patch_size, embed_dim, depth, num_register_tokens, interpolate_offset) ==
  [patch_size |-> patch_size, embed_dim |-> embed_dim, depth |-> depth,
   num_register_tokens |-> num_register_tokens,
   interpolate_offset |-> interpolate_offset,
   patch_embed |-> PatchEmbedInit(img_size, make_2tuple(patch_size), embed_dim, TRUE)]

\* self.pos_embed: one row for the class token and one per reference patch
PosEmbed(m) == List([k \in 1..(m.patch_embed.num_patches + 1) |-> k])

\* int(math.sqrt(n))
IntSqrt(n) == CHOOSE k \in 0..n : k * k <= n /\ n < (k + 1) * (k + 1)

\* the size nn.functional.interpolate gives one axis of a grid of size m:
\* floor(m * scale_factor) with scale_factor = (n0 + offset) / m (770-772),
\* or the requested size n0 (775)
InterpolatedSize(m, n0, offset) ==
  IF offset # 0 THEN (m * (10 * n0 + offset)) \div (10 * m) ELSE n0

\* VisionTransformer.interpolate_pos_encoding (752-788): x_len is x.shape[1];
\* rows of a resampled table are numbered from 1001
interpolate_pos_encoding(m, x_len, w, h) ==
  LET npatch == x_len - 1
      num_patches == Len(PosEmbed(m)) - 1
      w0 == w \div m.patch_size
      h0 == h \div m.patch_size
      num_patches_dim == IntSqrt(num_patches)
      ow == InterpolatedSize(num_patches_dim, w0, m.interpolate_offset)
      oh == InterpolatedSize(num_patches_dim, h0, m.interpolate_offset)
  IN  IF npatch = num_patches /\ w = h
      THEN [raised |-> "none", path |-> "fast", table |-> PosEmbed(m)]
      ELSE IF num_patches # num_patches_dim * num_patches_dim
      THEN [raised |-> "AssertionError", path |-> "resample", table |-> <<>>]
      ELSE IF <<w0, h0>> # <<ow, oh>>
      THEN [raised |-> "AssertionError", path |-> "resample", table |-> <<>>]
      ELSE [raised |-> "none", path |-> "resample",
            table |-> <<PosEmbed(m)[1]>> \o List([k \in 1..(ow * oh) |-> 1000 + k])]

\* torch.where(masks.unsqueeze(-1), mask_token, x) (794-796); masks is the
\* set of masked patch positions
ApplyMasks(tokens, masks) ==
  List([k \in 1..Len(tokens) |->
          IF k \in masks THEN [kind |-> "mask_token", idx |-> k, pos |-> 0] ELSE tokens[k]])

\* x + pos (799, broadcast over the batch): row k of the table is added to
\* token k
AddPos(tokens, table) ==
  List([k \in 1..Len(tokens) |-> [tokens[k] EXCEPT !.pos = table[k]]])

\* the rows of self.register_tokens
RegisterTokens(m) ==
  List([k \in 1..m.num_register_tokens |-> [kind |-> "register", idx |-> k, pos |-> 0]])

\* mutant: the register tokens are appended after the patch tokens
InsertRegistersAtEnd(m, x) ==
  IF m.num_register_tokens # 0 THEN x \o RegisterTokens(m) ELSE x

\* lines 801-809: x[:, :1], register tokens, x[:, 1:]
InsertRegisters(m, x) ==
  IF m.num_register_tokens # 0
  THEN SubSeq(x, 1, 1) \o RegisterTokens(m) \o SubSeq(x, 2, Len(x))
  ELSE x

\* VisionTransformer.prepare_tokens_with_masks (790-811) on an image batch of
\* shape [b, c, d2, d3]: the token sequence of one image
prepare_tokens_with_masks(m, d2, d3, has_masks, masks) ==
  LET w == d2
      h == d3
      pe == PatchEmbedForward(m.patch_embed, d2, d3)
      x0 == IF has_masks THEN ApplyMasks(pe.tokens, masks) ELSE pe.tokens
      x1 == <<[kind |-> "cls", idx |-> 1, pos |-> 0]>> \o x0
      pos == interpolate_pos_encoding(m, Len(x1), w, h)
  IN  IF pe.raised # "none"
      THEN [raised |-> pe.raised, path |-> "none", tokens |-> <<>>]
      ELSE IF pos.raised # "none"
      THEN [raised |-> pos.raised, path |-> pos.path, tokens |-> <<>>]
      ELSE IF Len(pos.table) # Len(x1)
      THEN [raised |-> "RuntimeError", path |-> pos.path, tokens |-> <<>>]
      ELSE [raised |-> "none", path |-> pos.path,
            tokens |-> InsertRegisters(m, AddPos(x1, pos.table))]

\* x_norm[:, lo:hi] on the sequence axis, Python slice bounds (0-based, hi
\* exclusive, clipped)
Slice(x, lo, hi) == SubSeq(x, lo + 1, Min(hi, Len(x)))

\* mutant: the patch tokens are taken from index 1, registers included
forward_features_patch_from_1(m, x) ==
  [x_norm_1st_clstoken |-> Slice(x, 0, 1),
   x_norm_2nd_clstoken |-> Slice(x, 1, m.num_register_tokens + 1),
   x_norm_patchtokens |-> Slice(x, 1, Len(x))]

\* VisionTransformer.forward_features (838-850) after the blocks and the
\* norm, which keep the shape: the three slices of the sequence axis
forward_features(m, x) ==
  [x_norm_1st_clstoken |-> Slice(x, 0, 1),
   x_norm_2nd_clstoken |-> Slice(x, 1, m.num_register_tokens + 1),
   x_norm_patchtokens |-> Slice(x, m.num_register_tokens + 1, Len(x))]

\* the shape of a slice x_norm[:, lo:hi] of a [b, n, embed_dim] tensor
SliceShape(m, b, slice) == <<b, Len(slice), m.embed_dim>>

\* VisionTransformer.forward (916-923) with is_training false: the shapes of
\* the returned 3-tuple (self.head is nn.Identity, line 739)
forward(m, b, x) ==
  LET ret_dict == forward_features(m, x)
  IN  <<SliceShape(m, b, ret_dict.x_norm_1st_clstoken),
        SliceShape(m, b, ret_dict.x_norm_2nd_clstoken),
        SliceShape(m, b, ret_dict.x_norm_patchtokens)>>

\* vit_small (934-945) with the default img_size (610) and offset (630)
vit_small == VisionTransformerInit(<<224, 224>>, 14, 384, 12, 1, 1)

(* ------------- calls on a PatchEmbed / a VisionTransformer ------------- *)
\* standalone PatchEmbed layers: any patch height and width, both layouts
PatchEmbedLayers ==
  {PatchEmbedInit(<<MaxImg, MaxImg>>, <<ph, pw>>, 8, flat) :
     ph \in 1..3, pw \in 1..3, flat \in BOOLEAN}

\* the reference sizes a patch size divides at least once
ReferenceSizes ==
  {r \in (1..MaxImg) \X (1..MaxImg) \X (1..2) : r[3] <= r[1] /\ r[3] <= r[2]}

\* small models of every reference size, square or not, and vit_small
Models ==
  {VisionTransformerInit(<<r[1], r[2]>>, r[3], 8, 1, n, off) :
     r \in ReferenceSizes, n \in 0..MaxRegisters, off \in {0, 1}}
  \cup {vit_small}

\* image heights and widths tried on a layer: its reference sizes, one pixel
\* more, and two patches
ImageDims(pe) ==
  {pe.img_size[1], pe.img_size[2], pe.img_size[1] + 1, 2 * pe.patch_size[1]}

\* placeholder model of a standalone PatchEmbed
NoModel == VisionTransformerInit(<<1, 1>>, 1, 1, 0, 0, 0)

VitIdle(kind, layer, model) ==
  [op |-> "init", kind |-> kind, layer |-> layer, model |-> model,
   b |-> 0, h |-> 0, w |-> 0, has_masks |-> FALSE, masks |-> {},
   is_training |-> FALSE, raised |-> "none", path |-> "none",
   shape |-> <<>>, tokens |-> <<>>, out |-> <<>>]

\* PatchEmbed.forward on self (a standalone layer or a model's patch_embed)
PatchEmbedForwardCall ==
  \E b \in 1..MaxBatch, h \in ImageDims(vit.layer), w \in ImageDims(vit.layer) :
    \E f \in {PatchEmbedForward(vit.layer, h, w)} :
       /\ vit' = [VitIdle(vit.kind, vit.layer, vit.model) EXCEPT
                    !.op = "PatchEmbed.forward", !.b = b, !.h = h, !.w = w,
                    !.raised = f.raised, !.tokens = f.tokens,
                    !.shape = IF f.raised = "none"
                              THEN PatchEmbedShape(vit.layer, b, f) ELSE <<>>]
       /\ UNCHANGED <<XFORMERS_AVAILABLE, block, attn_bias_cache, heap, ret, seen, th>>

\* VisionTransformer.prepare_tokens_with_masks(x, masks) on an image of
\* shape [1, 3, h, w]
PrepareTokensCall ==
  /\ vit.kind = "VisionTransformer"
  /\ \E h \in ImageDims(vit.layer), w \in ImageDims(vit.layer),
        has_masks \in BOOLEAN :
       \E masks \in (IF has_masks THEN {{1}} ELSE {{}}) :
       \E f \in {prepare_tokens_with_masks(vit.model, h, w, has_masks, masks)} :
          /\ vit' = [VitIdle(vit.kind, vit.layer, vit.model) EXCEPT
                       !.op = "prepare_tokens_with_masks", !.b = 1, !.h = h, !.w = w,
                       !.has_masks = has_masks, !.masks = masks,
                       !.raised = f.raised, !.path = f.path, !.tokens = f.tokens]
          /\ UNCHANGED <<XFORMERS_AVAILABLE, block, attn_bias_cache, heap, ret, seen, th>>

\* VisionTransformer.forward(x, is_training=...) on a batch of shape
\* [b, 3, h, w], without masks
VitForwardCall ==
  /\ vit.kind = "VisionTransformer"
  /\ \E b \in 1..MaxBatch, h \in ImageDims(vit.layer), w \in ImageDims(vit.layer),
        is_training \in BOOLEAN :
       \E f \in {prepare_tokens_with_masks(vit.model, h, w, FALSE, {})} :
          /\ vit' = [VitIdle(vit.kind, vit.layer, vit.model) EXCEPT
                       !.op = "forward", !.b = b, !.h = h, !.w = w,
                       !.is_training = is_training,
                       !.raised = f.raised, !.path = f.path, !.tokens = f.tokens,
                       !.out = IF f.raised = "none"
                               THEN forward(vit.model, b, f.tokens) ELSE <<>>]
          /\ UNCHANGED <<XFORMERS_AVAILABLE, block, attn_bias_cache, heap, ret, seen, th>>

InitVit ==
  /\ InitCommon
  /\ XFORMERS_AVAILABLE \in BOOLEAN
  /\ block = DefaultBlock
  /\ th = <<>>
  /\ vit \in {VitIdle("VisionTransformer", m.patch_embed, m) : m \in Models}
            \cup {VitIdle("PatchEmbed", pe, NoModel) : pe \in PatchEmbedLayers}

NextVit == PatchEmbedForwardCall \/ PrepareTokensCall \/ VitForwardCall

SpecVit == InitVit /\ [][NextVit]_vars

(* ------------- the block list of a VisionTransformer (708-736) --------- *)
\* A hidden state is modelled by the sequence of the blocks applied to it: a
\* real block appends its global index, nn.Identity appends nothing.
IdentityLayer == <<>>

\* blocks_list (708-723): block i of range(depth)
blocks_list(depth) == List([k \in 1..depth |-> <<k - 1>>])

\* len(range(0, stop, step)) for step > 0
RangeLen(stop, step) == (stop + step - 1) \div step

\* blk(x) for a block or a placeholder
ApplyBlock(blk, x) == x \o blk

\* mutant: the chunks are not padded with placeholders
VitBlocksInitNoPadding(depth, block_chunks) ==
  IF block_chunks > 0
  THEN LET chunksize == depth \div block_chunks
       IN  IF chunksize = 0
           THEN [raised |-> "ValueError", chunked_blocks |-> TRUE, blocks |-> <<>>]
           ELSE [raised |-> "none", chunked_blocks |-> TRUE,
                 blocks |-> List([c \in 1..RangeLen(depth, chunksize) |->
                              LET i == (c - 1) * chunksize
                              IN  SubSeq(blocks_list(depth), i + 1, Min(i + chunksize, depth))])]
  ELSE [raised |-> "none", chunked_blocks |-> FALSE, blocks |-> blocks_list(depth)]

\* VisionTransformer.__init__ (708-736): self.chunked_blocks and self.blocks;
\* range(0, depth, 0) raises ValueError
VitBlocksInit(depth, block_chunks) ==
  IF block_chunks > 0
  THEN LET chunksize == depth \div block_chunks
       IN  IF chunksize = 0
           THEN [raised |-> "ValueError", chunked_blocks |-> TRUE, blocks |-> <<>>]
           ELSE [raised |-> "none", chunked_blocks |-> TRUE,
                 blocks |-> List([c \in 1..RangeLen(depth, chunksize) |->
                              LET i == (c - 1) * chunksize
                              IN  Repeat(IdentityLayer, i) \o
                                  SubSeq(blocks_list(depth), i + 1, Min(i + chunksize, depth))])]
  ELSE [raised |-> "none", chunked_blocks |-> FALSE, blocks |-> blocks_list(depth)]

\* BlockChunk.forward (599-602): every element of the chunk, in order
RECURSIVE BlockChunkForward(_, _)
BlockChunkForward(chunk, x) ==
  IF chunk = <<>> THEN x ELSE BlockChunkForward(Tail(chunk), ApplyBlock(Head(chunk), x))

\* for blk in self.blocks: x = blk(x) (840-841)
RECURSIVE ForwardBlocks(_, _, _)
ForwardBlocks(chunked, blocks, x) ==
  IF blocks = <<>> THEN x
  ELSE ForwardBlocks(chunked, Tail(blocks),
         IF chunked THEN BlockChunkForward(Head(blocks), x) ELSE ApplyBlock(Head(blocks), x))

\* a request n: an int (the n last blocks) or a list of block indices
IntRequest(n) == [is_int |-> TRUE, n |-> n, list |-> <<>>]

ListRequest(list) == [is_int |-> FALSE, n |-> 0, list |-> list]

\* blocks_to_take (856-858, 872-874) as a sequence
blocks_to_take(total_block_len, req) ==
  IF req.is_int
  THEN List([k \in 1..req.n |-> total_block_len - req.n + k - 1])
  ELSE req.list

\* i in blocks_to_take
InTake(i, take) == \E k \in 1..Len(take) : take[k] = i

\* the assertion and the return (863-866, 881-884)
CheckTaken(output, take) ==
  IF Len(output) = Len(take) THEN [raised |-> "none", output |-> output]
  ELSE [raised |-> "AssertionError", output |-> <<>>]

\* the loop of lines 859-862 from block i on: x, then the captured states
RECURSIVE NotChunkedLoop(_, _, _, _, _)
NotChunkedLoop(blocks, take, i, x, output) ==
  IF i >= Len(blocks) THEN output
  ELSE LET x1 == ApplyBlock(blocks[i + 1], x)
       IN  NotChunkedLoop(blocks, take, i + 1, x1,
                          IF InTake(i, take) THEN Append(output, x1) ELSE output)

\* VisionTransformer._get_intermediate_layers_not_chunked (852-866)
get_intermediate_layers_not_chunked(m, x, req) ==
  LET take == blocks_to_take(Len(m.blocks), req)
  IN  CheckTaken(NotChunkedLoop(m.blocks, take, 0, x, <<>>), take)

\* the inner loop of lines 876-880 over the elements of block_chunk[i:]
RECURSIVE InnerLoop(_, _, _)
InnerLoop(slice, take, st) ==
  IF slice = <<>> THEN st
  ELSE LET x1 == ApplyBlock(Head(slice), st.x)
       IN  InnerLoop(Tail(slice), take,
             [x |-> x1, i |-> st.i + 1,
              output |-> IF InTake(st.i, take) THEN Append(st.output, x1) ELSE st.output])

\* mutant: the inner loop runs over the whole chunk, placeholders included
RECURSIVE ChunkedLoopNoSlice(_, _, _)
ChunkedLoopNoSlice(chunks, take, st) ==
  IF chunks = <<>> THEN st
  ELSE ChunkedLoopNoSlice(Tail(chunks), take, InnerLoop(Head(chunks), take, st))

\* the outer loop of lines 875-880: block_chunk[i:] is taken when the inner
\* loop starts
RECURSIVE ChunkedLoop(_, _, _)
ChunkedLoop(chunks, take, st) ==
  IF chunks = <<>> THEN st
  ELSE ChunkedLoop(Tail(chunks), take,
         InnerLoop(SubSeq(Head(chunks), st.i + 1, Len(Head(chunks))), take, st))

\* VisionTransformer._get_intermediate_layers_chunked (868-884)
get_intermediate_layers_chunked(m, x, req) ==
  LET total_block_len == Len(m.blocks[Len(m.blocks)])
      take == blocks_to_take(total_block_len, req)
  IN  CheckTaken(ChunkedLoop(m.blocks, take, [x |-> x, i |-> 0, output |-> <<>>]).output, take)

\* VisionTransformer.get_intermediate_layers (886-914): the hidden states
\* taken, then what is done to each (norm, the patch-token slice, reshape)
\* and the class token paired with it on request
get_intermediate_layers(m, x, req, reshape, return_class_token, norm) ==
  LET taken == IF m.chunked_blocks THEN get_intermediate_layers_chunked(m, x, req)
               ELSE get_intermediate_layers_not_chunked(m, x, req)
      outputs == List([k \in 1..Len(taken.output) |->
                   [x |-> taken.output[k], norm |-> norm, part |-> "patch_tokens",
                    reshape |-> reshape]])
      class_tokens == List([k \in 1..Len(taken.output) |->
                   [x |-> taken.output[k], norm |-> norm, part |-> "class_token",
                    reshape |-> FALSE]])
  IN  IF taken.raised # "none" THEN [raised |-> taken.raised, out |-> <<>>]
      ELSE IF return_class_token
      THEN [raised |-> "none",
            out |-> List([k \in 1..Len(outputs) |-> <<outputs[k], class_tokens[k]>>])]
      ELSE [raised |-> "none", out |-> List([k \in 1..Len(outputs) |-> <<outputs[k]>>])]

(* ---------------- calls on a model with a block list -------------------- *)
\* the requests tried: every int up to one past the depth, every list of up
\* to two indices (repeated, unordered and out-of-range ones included)
Requests ==
  {IntRequest(n) : n \in 0..(MaxDepth + 1)}
  \cup {ListRequest(l) : l \in {<<>>} \cup {<<a>> : a \in 0..MaxDepth}
                              \cup {<<a, b>> : a \in 0..MaxDepth, b \in 0..MaxDepth}}

ChunkIdle(depth, block_chunks) ==
  [op |-> "init", depth |-> depth, block_chunks |-> block_chunks,
   model |-> VitBlocksInit(depth, block_chunks),
   req |-> IntRequest(0), reshape |-> FALSE, return_class_token |-> FALSE,
   norm |-> FALSE, raised |-> "none", out |-> <<>>]

\* get_intermediate_layers(x, n, reshape, return_class_token, norm)
GetIntermediateLayersCall ==
  /\ vit.model.raised = "none"
  /\ \E req \in Requests, reshape \in BOOLEAN, return_class_token \in BOOLEAN,
        norm \in BOOLEAN :
       \E f \in {get_intermediate_layers(vit.model, <<>>, req, reshape,
                                         return_class_token, norm)} :
          /\ vit' = [ChunkIdle(vit.depth, vit.block_chunks) EXCEPT
                       !.op = "get_intermediate_layers", !.req = req,
                       !.reshape = reshape, !.return_class_token = return_class_token,
                       !.norm = norm, !.raised = f.raised, !.out = f.out]
          /\ UNCHANGED <<XFORMERS_AVAILABLE, block, attn_bias_cache, heap, ret, seen, th>>

\* the block loop of forward_features (840-841)
ForwardBlocksCall ==
  /\ vit.model.raised = "none"
  /\ vit' = [ChunkIdle(vit.depth, vit.block_chunks) EXCEPT
               !.op = "forward_features",
               !.out = ForwardBlocks(vit.model.chunked_blocks, vit.model.blocks, <<>>)]
  /\ UNCHANGED <<XFORMERS_AVAILABLE, block, attn_bias_cache, heap, ret, seen, th>>

InitChunks ==
  /\ InitCommon
  /\ XFORMERS_AVAILABLE = TRUE
  /\ block = DefaultBlock
  /\ th = <<>>
  /\ vit \in {ChunkIdle(depth, block_chunks) :
                depth \in 0..MaxDepth, block_chunks \in 0..(MaxDepth + 1)}

NextChunks == GetIntermediateLayersCall \/ ForwardBlocksCall

SpecChunks == InitChunks /\ [][NextChunks]_vars

(* ----------------- calls of get_branges_scales (419-424) --------------- *)
\* the outcomes of torch.randperm(b) tried: the rotations of 1..b
Randperms(b) == {List([k \in 1..b |-> ((k + s - 1) % b) + 1]) : s \in 0..(b - 1)}

\* get_branges_scales (419-424) on a tensor of b rows for the draw perm; the
\* scale b / sample_subset_size is kept as the pair of its operands
get_branges_scales(b, sample_drop_ratio, perm) ==
  LET sample_subset_size == SubsetSizeTable[b][sample_drop_ratio]
  IN  [brange |-> SubSeq(perm, 1, sample_subset_size),
       residual_scale_factor |-> <<b, sample_subset_size>>]

GetBrangesScalesCall ==
  \E b \in 1..MaxSubsetBatch, sample_drop_ratio \in SubsetRatios :
    \E perm \in Randperms(b) :
      \E g \in {get_branges_scales(b, sample_drop_ratio, perm)} :
         /\ ret' = [op |-> "get_branges_scales", b |-> b,
                    sample_drop_ratio |-> sample_drop_ratio, brange |-> g.brange,
                    residual_scale_factor |-> g.residual_scale_factor]
         /\ UNCHANGED <<XFORMERS_AVAILABLE, block, attn_bias_cache, heap, seen, th, vit>>

InitSubset ==
  /\ attn_bias_cache = EmptyCache
  /\ heap = <<>>
  /\ seen = {}
  /\ ret = [op |-> "none", b |-> 0, sample_drop_ratio |-> 0, brange |-> <<>>,
            residual_scale_factor |-> <<0, 0>>]
  /\ XFORMERS_AVAILABLE = TRUE
  /\ block = DefaultBlock
  /\ th = <<>>
  /\ vit = NoVit

NextSubset == GetBrangesScalesCall

SpecSubset == InitSubset /\ [][NextSubset]_vars

(* ======================= claims on the cache =========================== *)
\* a direct call of get_attn_bias_and_cat has returned
Returned == ret.op = "get_attn_bias_and_cat" /\ ret.raised = "none"

\* the sample and the row of that sample a token of an input list came from
OriginOf(tok) == <<SymI(tok[1]), SymR(tok[1])>>

\* C2: the sequence lengths handed to the block-diagonal mask cut the
\* concatenated sequence exactly at the boundaries of the original samples:
\* the lengths add up to the concatenated length, and position p may attend
\* to position q exactly when both come from the same row of the same input
\* tensor, so never across samples.
C2_MaskCutsAtSampleBoundaries ==
  Returned =>
    LET mask == heap[ret.bias]
        cat == ret.cat[1]
    IN  /\ SumSeq(mask.seqlens) = Len(cat)
        /\ \A p, q \in 1..Len(cat) :
             MaskAllows(mask, p, q) <=> OriginOf(cat[p]) = OriginOf(cat[q])

\* a call on two tensors of different lengths, one of them with two rows
C2_Witness ==
  /\ Returned
  /\ Len(ret.x_list) = 2
  /\ Shape0(ret.x_list[1]) = 2
  /\ Shape1(ret.x_list[1]) # Shape1(ret.x_list[2])
  /\ Shape1(ret.x_list[1]) = 2

\* the sequence lengths a shape key stands for: n_i repeated b_i times
RECURSIVE SeqlensOfKey(_)
SeqlensOfKey(key) ==
  IF key = <<>> THEN <<>>
  ELSE Repeat(Head(key)[2], Head(key)[1]) \o SeqlensOfKey(Tail(key))

MaskIsFor(mask, key) ==
  /\ mask.seqlens = SeqlensOfKey(key)
  /\ mask.has_batch_sizes
  /\ mask.batch_sizes = [i \in 1..Len(key) |-> key[i][1]]

\* C3: every cache entry stored under key ((b_1,n_1),...,(b_k,n_k)) is the
\* mask of the sequence lengths n_i repeated b_i times with _batch_sizes
\* [b_1..b_k]; the bias returned to a call is the mask of that call's own
\* shapes, and it is the entry of no key other than the call's signature.
C3_CacheEntryMatchesKey ==
  /\ \A key \in DOMAIN attn_bias_cache : MaskIsFor(heap[attn_bias_cache[key]], key)
  /\ Returned =>
       LET sig == ShapeSignature(ret.x_list, ret.has_branges, ret.branges)
       IN  /\ MaskIsFor(heap[ret.bias], sig)
           /\ \A key \in DOMAIN attn_bias_cache :
                attn_bias_cache[key] = ret.bias => key = sig

\* a call with branges that selects fewer rows than the tensor has is served
\* from an entry created two calls of another shape ago
C3_Witness ==
  /\ Returned
  /\ ret.has_branges
  /\ Len(heap) = 2
  /\ ret.bias = 1
  /\ \E i \in 1..Len(ret.x_list) : Len(ret.branges[i]) < Shape0(ret.x_list[i])

\* one step of the cache: nothing is removed or replaced, a call whose
\* signature is present changes nothing, a new signature adds that one key
C5_Step ==
  LET sig == ShapeSignature(ret'.x_list, ret'.has_branges, ret'.branges)
  IN  /\ \A key \in DOMAIN attn_bias_cache :
           /\ key \in DOMAIN attn_bias_cache'
           /\ attn_bias_cache'[key] = attn_bias_cache[key]
           /\ heap'[attn_bias_cache'[key]] = heap[attn_bias_cache[key]]
      /\ ret'.raised = "none" =>
           IF sig \in DOMAIN attn_bias_cache
           THEN attn_bias_cache' = attn_bias_cache /\ heap' = heap
           ELSE DOMAIN attn_bias_cache' = DOMAIN attn_bias_cache \cup {sig}

\* C5: the cache is append-only.  Across any sequence of calls no key is
\* removed and no entry replaced, a call whose key is present leaves the
\* cache unchanged, a call with a new key adds exactly that key, and the
\* number of entries is the number of distinct shape signatures seen so far.
C5_CacheAppendOnly ==
  /\ [][C5_Step]_vars
  /\ [](Cardinality(DOMAIN attn_bias_cache) = Cardinality(seen))

\* two entries exist and the last call was served by the older one
C5_Witness ==
  /\ Returned
  /\ Cardinality(DOMAIN attn_bias_cache) = 2
  /\ ret.bias = 1

(* ======================= claims on the block =========================== *)
\* forward_nested has returned from the branch without stochastic depth
NestedReturnedPlain ==
  /\ ret.op = "NestedTensorBlock.forward"
  /\ ret.raised = "none"
  /\ ~(block.training /\ block.sample_drop_ratio > 0)

\* C1: outside the stochastic-depth branch forward_nested returns one tensor
\* per input tensor, the i-th with the shape of the i-th input and equal to
\* what Block.forward returns for the i-th input run alone.
C1_NestedEqualsPerSample ==
  NestedReturnedPlain =>
    /\ Len(ret.out) = Len(ret.x_list)
    /\ \A i \in 1..Len(ret.x_list) :
         /\ Shape0(ret.out[i]) = Shape0(ret.x_list[i])
         /\ \A r \in 1..Shape0(ret.out[i]) : Len(ret.out[i][r]) = Shape1(ret.x_list[i])
         /\ ret.out[i] = BlockForward(XFORMERS_AVAILABLE, block, ret.x_list[i], NoRnd)

\* two tensors of different shapes, one with two rows of two tokens, packed
\* by a call that was served from the cache
C1_Witness ==
  /\ NestedReturnedPlain
  /\ Len(ret.x_list) = 2
  /\ Shape0(ret.x_list[1]) = 2
  /\ Shape1(ret.x_list[1]) = 2
  /\ Shape1(ret.x_list[2]) = 1
  /\ Len(heap) = 2
  /\ attn_bias_cache[ShapeSignature(ret.x_list, FALSE, <<>>)] = 1

\* C6: without xformers, MemEffAttention.forward with a bias raises and
\* NestedTensorBlock.forward on a list raises, neither returning a result;
\* MemEffAttention.forward on one tensor without bias returns exactly what
\* Attention.forward returns.
C6_NoXformersRaisesOrFallsBack ==
  ~XFORMERS_AVAILABLE =>
    /\ (ret.op = "MemEffAttention.forward" /\ ret.has_bias) =>
          ret.raised = "AssertionError" /\ ret.out = <<<<>>>>
    /\ ret.op = "NestedTensorBlock.forward" =>
          ret.raised = "AssertionError" /\ ret.out = <<>> /\ heap = <<>>
    /\ (ret.op = "MemEffAttention.forward" /\ ~ret.has_bias) =>
          ret.raised = "none" /\ ret.out = <<AttentionForward(ret.x_list[1])>>

\* a bias was passed to MemEffAttention.forward while xformers is absent
C6_Witness ==
  /\ ~XFORMERS_AVAILABLE
  /\ ret.op = "MemEffAttention.forward"
  /\ ret.has_bias
  /\ Shape0(ret.x_list[1]) = 1

(* =================== claims on concurrent callers ====================== *)
\* one step leaves every existing entry with the mask content it had
C4_Step ==
  \A key \in DOMAIN attn_bias_cache :
     /\ key \in DOMAIN attn_bias_cache'
     /\ heap'[attn_bias_cache'[key]] = heap[attn_bias_cache[key]]

\* C4: under any interleaving of concurrent calls a mask is in the cache only
\* when fully constructed (sequence lengths built and _batch_sizes set) and
\* valid for its key; no step of a call changes the mask of an entry that
\* exists, so calls with other keys do not affect it; and every call returns
\* a fully constructed mask that is valid for its own key.
C4_ConstructThenPublish ==
  /\ [](\A key \in DOMAIN attn_bias_cache : MaskIsFor(heap[attn_bias_cache[key]], key))
  /\ [](\A t \in DOMAIN th :
          th[t].pc = "done" =>
            MaskIsFor(heap[th[t].bias],
                      ShapeSignature(th[t].x_list, th[t].has_branges, th[t].branges)))
  /\ [][C4_Step]_vars

\* two callers raced on the same key: both built a mask, both returned, and
\* the first returned while the second held a mask without _batch_sizes
C4_Witness ==
  /\ Len(heap) = 2
  /\ th[1].pc = "done"
  /\ th[2].pc = "set_batch_sizes"
  /\ th[1].all_shapes = th[2].all_shapes
  /\ ~heap[th[2].obj].has_batch_sizes

(* ================= claims on the VisionTransformer (SpecVit) =========== *)
\* C7: PatchEmbed.forward on an image whose height and width are multiples of
\* the patch height and width returns (H/patch)*(W/patch) tokens per image;
\* on any other image it raises an AssertionError and returns no tokens.
C7_PatchEmbedTokenCount ==
  vit.op = "PatchEmbed.forward" =>
     LET ph == vit.layer.patch_size[1]
         pw == vit.layer.patch_size[2]
     IN  IF vit.h % ph = 0 /\ vit.w % pw = 0
         THEN /\ vit.raised = "none"
              /\ Len(vit.tokens) = (vit.h \div ph) * (vit.w \div pw)
         ELSE /\ vit.raised = "AssertionError"
              /\ vit.tokens = <<>>

\* a call whose height divides and whose width does not
C7_Witness ==
  /\ vit.op = "PatchEmbed.forward"
  /\ vit.h % vit.layer.patch_size[1] = 0
  /\ vit.w % vit.layer.patch_size[2] # 0
  /\ vit.raised = "AssertionError"

\* C8: whenever prepare_tokens_with_masks returns, with or without masks and
\* for any number of register tokens, the sequence has 1 + num_register_tokens
\* + (number of patches of the image) tokens: the class token, then the
\* register tokens in order, then the patch positions in order.
C8_TokenSequenceLayout ==
  (vit.op = "prepare_tokens_with_masks" /\ vit.raised = "none") =>
     LET n == vit.model.num_register_tokens
         p == vit.model.patch_size
         num_patches == (vit.h \div p) * (vit.w \div p)
     IN  /\ Len(vit.tokens) = 1 + n + num_patches
         /\ vit.tokens[1].kind = "cls"
         /\ \A k \in 1..n :
               vit.tokens[1 + k].kind = "register" /\ vit.tokens[1 + k].idx = k
         /\ \A k \in 1..num_patches :
               /\ vit.tokens[1 + n + k].kind = (IF k \in vit.masks THEN "mask_token" ELSE "patch")
               /\ vit.tokens[1 + n + k].idx = k

\* a masked call on a model with two or more register tokens and patches
C8_Witness ==
  /\ vit.op = "prepare_tokens_with_masks"
  /\ vit.raised = "none"
  /\ vit.has_masks
  /\ vit.model.num_register_tokens >= 2
  /\ Len(vit.tokens) >= 1 + vit.model.num_register_tokens + 2

\* an inference call of vit_small on a 224x224 batch
VitSmallInference ==
  /\ vit.op = "forward"
  /\ vit.model = vit_small
  /\ vit.h = 224 /\ vit.w = 224
  /\ ~vit.is_training

\* C9 as stated: the first two elements have shape [batch, 384] and the third
\* [batch, 256, 384].
C9_AsStated ==
  VitSmallInference =>
     /\ vit.raised = "none"
     /\ vit.out = <<<<vit.b, 384>>, <<vit.b, 384>>, <<vit.b, 256, 384>>>>

\* C9: vit_small in inference mode on a 224x224 batch returns a 3-tuple whose
\* first two elements have shape [batch, 1, 384] (the slices keep the sequence
\* axis) and whose third has shape [batch, 256, 384].
C9_VitSmallShapes ==
  VitSmallInference =>
     /\ vit.raised = "none"
     /\ vit.out = <<<<vit.b, 1, 384>>, <<vit.b, 1, 384>>, <<vit.b, 256, 384>>>>

\* the inference call of vit_small on a batch of two images
C9_Witness ==
  /\ VitSmallInference
  /\ vit.b = 2
  /\ vit.raised = "none"

\* C10: on an image whose height and width equal the model's reference
\* img_size, square or not, the positional table is taken from the fast path:
\* nothing raises, nothing is resampled, and token k carries row k of pos_embed.
C10_FastPathAtReference ==
  (/\ vit.op = "prepare_tokens_with_masks"
   /\ <<vit.h, vit.w>> = vit.layer.img_size
   /\ vit.h % vit.model.patch_size = 0
   /\ vit.w % vit.model.patch_size = 0) =>
     /\ vit.raised = "none"
     /\ vit.path = "fast"

(* ================= claims on the block list (SpecChunks) =============== *)
\* the hidden state after blocks 0..i, each applied once, in order
AfterBlocks(i) == List([k \in 1..(i + 1) |-> k - 1])

\* the hidden states a returned value carries, in order
HiddenStates(out) == List([k \in 1..Len(out) |-> out[k][1].x])

\* C11: a chunked model returns from get_intermediate_layers what the model of
\* the same depth built without chunking returns, for every int or list n
\* (the same error when the request is refused); whenever a model returns, the
\* states are those after blocks 0..i for the requested indices i, in
\* increasing order of i.
C11_ChunkedEqualsNotChunked ==
  vit.op = "get_intermediate_layers" =>
     LET plain == get_intermediate_layers(VitBlocksInit(vit.depth, 0), <<>>, vit.req,
                                          vit.reshape, vit.return_class_token, vit.norm)
         take == {i \in 0..(vit.depth - 1) :
                    IF vit.req.is_int THEN i >= vit.depth - vit.req.n
                    ELSE \E k \in 1..Len(vit.req.list) : vit.req.list[k] = i}
         h == HiddenStates(vit.out)
     IN  /\ vit.raised = plain.raised
         /\ vit.out = plain.out
         /\ vit.raised = "none" =>
              /\ {h[k] : k \in 1..Len(h)} = {AfterBlocks(i) : i \in take}
              /\ \A k \in 1..(Len(h) - 1) : Len(h[k]) < Len(h[k + 1])

\* a model of several chunks returns two states, one from each of two chunks
C11_Witness ==
  /\ vit.op = "get_intermediate_layers"
  /\ vit.model.chunked_blocks
  /\ Len(vit.model.blocks) >= 2
  /\ ~vit.req.is_int
  /\ vit.raised = "none"
  /\ HiddenStates(vit.out) = <<AfterBlocks(0), AfterBlocks(vit.depth - 1)>>

\* C16: in a chunked block list every real block is in exactly one chunk, at
\* the local index equal to its global index; every position of a chunk
\* before its first real block holds a placeholder; and running the chunks in
\* order applies blocks 0..depth-1 in order, each once.
C16_ChunksKeepGlobalIndex ==
  (vit.model.raised = "none" /\ vit.model.chunked_blocks) =>
     LET chunks == vit.model.blocks
         holds(c, g) == \E q \in 1..Len(chunks[c]) : chunks[c][q] = <<g>>
     IN  /\ \A g \in 0..(vit.depth - 1) :
              /\ Cardinality({c \in 1..Len(chunks) : holds(c, g)}) = 1
              /\ \A c \in 1..Len(chunks) :
                   holds(c, g) => (Len(chunks[c]) > g /\ chunks[c][g + 1] = <<g>>)
         /\ \A c \in 1..Len(chunks) : \A q \in 1..Len(chunks[c]) :
              (\A q2 \in 1..q : chunks[c][q2] \notin {<<g>> : g \in 0..(vit.depth - 1)})
                 => chunks[c][q] = IdentityLayer
         /\ vit.op = "forward_features" => vit.out = AfterBlocks(vit.depth - 1)

\* a forward pass through three chunks, the last two padded
C16_Witness ==
  /\ vit.op = "forward_features"
  /\ vit.model.chunked_blocks
  /\ Len(vit.model.blocks) >= 3
  /\ vit.model.blocks[3][1] = IdentityLayer
  /\ vit.out = AfterBlocks(vit.depth - 1)

\* C17: for 1 <= block_chunks <= depth the constructor builds exactly
\* block_chunks chunks.
C17_NumberOfChunks ==
  (vit.block_chunks >= 1 /\ vit.block_chunks <= vit.depth) =>
     /\ vit.model.raised = "none"
     /\ Len(vit.model.blocks) = vit.block_chunks

(* ============ claims on the batch-subset draw (SpecSubset) ============= *)
\* C14: the subset drawn for a batch of b rows at drop rate r has distinct
\* indices of the batch, max(floor(b * (1 - r)), 1) of them, and the residual
\* scale is b over that size.
C14_SubsetSizeAndScale ==
  ret.op = "get_branges_scales" =>
     LET size == Max((ret.b * (100 - ret.sample_drop_ratio)) \div 100, 1)
     IN  /\ \A k \in 1..Len(ret.brange) : ret.brange[k] \in 1..ret.b
         /\ \A k1, k2 \in 1..Len(ret.brange) : k1 # k2 => ret.brange[k1] # ret.brange[k2]
         /\ Len(ret.brange) = size
         /\ ret.residual_scale_factor = <<ret.b, size>>

(* ============ claims on stochastic depth (SpecBlockTrain, SpecTrain) ==== *)
\* the sum of the values of a function with a finite domain
RECURSIVE SumOver(_)
SumOver(f) ==
  IF DOMAIN f = {} THEN 0
  ELSE LET e == CHOOSE e \in DOMAIN f : TRUE
       IN  f[e] + SumOver([d \in DOMAIN f \ {e} |-> f[d]])

RECURSIVE Factorial(_)
Factorial(n) == IF n = 0 THEN 1 ELSE n * Factorial(n - 1)

\* the coefficient <<num, den>> at the head of a token: the scale of an
\* index_add, the draw over keep_prob of a Bernoulli drop (the draw itself
\* when it was not divided), 0 for a row that received nothing
Coefficient(token) ==
  LET head == token[1]
  IN  IF SymOp(head) = "index_add" THEN <<SymI(head), SymR(head)>>
      ELSE IF SymOp(head) = "mul_bernoulli"
      THEN IF SymJ(head) = 0 THEN <<SymI(head), 1>> ELSE <<SymI(head) * 100, SymJ(head)>>
      ELSE <<0, 1>>

\* C12: in training with a drop rate r > 0 the coefficient of every sample's
\* residual has expected value 1 over the draw.  In the batch-subset path the
\* sum over the equally likely subsets of the coefficient of sample s (times
\* b! to stay in integers) is the number of subsets times b!; in the
\* Bernoulli path, whatever is drawn for the other samples, the sum over the
\* two outcomes of sample s of weight times coefficient is the sum of the
\* weights (both times 100 - r).
C12_ExpectedCoefficientIsOne ==
  (ret.op = "Block.forward" /\ block.training /\ block.sample_drop_ratio > 0) =>
     LET x == ret.x_list[1]
         b == Shape0(x)
         r == block.sample_drop_ratio
         res(y) == attn_residual_func(XFORMERS_AVAILABLE, block, y)
     IN  /\ ret.out = <<BlockForward(XFORMERS_AVAILABLE, block, x, ret.rnd)>>
         /\ \A s \in 1..b :
              IF r > 10
              THEN LET brs == Branges(b, r)
                       n(br) ==
                         LET c == Coefficient(drop_add_residual_stochastic_depth(
                                                x, br, res(IndexSelect(x, br)))[s][1])
                         IN  c[1] * (Factorial(b) \div c[2])
                   IN  SumOver([br \in brs |-> n(br)]) = Cardinality(brs) * Factorial(b)
              ELSE \A base \in Product(Repeat({0, 1}, b)) :
                     LET e(k) ==
                           LET c == Coefficient(drop_path_impl(
                                       res(x), r, TRUE, [base EXCEPT ![s] = k])[s][1])
                           IN  BernoulliWeight(k, r) * c[1] * ((100 - r) \div c[2])
                     IN  SumOver([k \in {0, 1} |-> e(k)]) = 100 * (100 - r)

\* a training call in the batch-subset path on two samples, one left out
C12_Witness ==
  /\ ret.op = "Block.forward"
  /\ block.training
  /\ block.sample_drop_ratio > 10
  /\ Shape0(ret.x_list[1]) = 2
  /\ Len(ret.rnd.br1) = 1
  /\ ret.out = <<BlockForward(XFORMERS_AVAILABLE, block, ret.x_list[1], ret.rnd)>>

\* the operations found in the tokens of a returned list of tensors
OpsOf(out) ==
  UNION {UNION {UNION {{SymOp(out[i][r][j][k]) : k \in 1..Len(out[i][r][j])} :
                          j \in 1..Len(out[i][r])} :
                   r \in 1..Len(out[i])} :
           i \in 1..Len(out)}

\* the residual mode a returned value shows
ResidualMode(out) ==
  IF OpsOf(out) \cap {"index_add", "scaled_index_add_ls1", "scaled_index_add_ls2"} # {}
  THEN "batch_subset"
  ELSE IF "mul_bernoulli" \in OpsOf(out) THEN "bernoulli"
  ELSE "full"

\* C13: on every forward path the residual mode follows from the training
\* flag and the drop rate r alone: batch subset in training with r > 0.1,
\* per-sample Bernoulli drop in training with 0 < r <= 0.1, and otherwise
\* both residuals added in full to every sample (every returned token is the
\* input token plus the attention residual plus the feed-forward residual).
C13_ResidualModeByRate ==
  (ret.op \in {"Block.forward", "NestedTensorBlock.forward"} /\ ret.raised = "none") =>
     LET r == block.sample_drop_ratio
         expected == IF block.training /\ r > 10 THEN "batch_subset"
                     ELSE IF block.training /\ r > 0 THEN "bernoulli"
                     ELSE "full"
     IN  /\ ResidualMode(ret.out) = expected
         /\ expected = "full" =>
              \A i \in 1..Len(ret.out) : \A q \in 1..Len(ret.out[i]) :
                 \A j \in 1..Len(ret.out[i][q]) :
                    LET t == ret.out[i][q][j]
                    IN  /\ SymOp(t[1]) = "add" /\ SymOp(t[2]) = "add"
                        /\ t[3] = ret.x_list[i][q][j][1]

\* the residual function of the call applied to row q of x alone
OwnResidual(kind, x, q) ==
  IF kind = "attn"
  THEN MemEffAttentionForward(TRUE, MapTensor("norm1", <<x[q]>>), FALSE, NoMask).out[1]
  ELSE MapTensor("mlp", MapTensor("norm2", <<x[q]>>))[1]

\* the head symbol of the scaled addition add_residual performs
ScaledAdd(scaling, b, size) ==
  IF scaling = "" THEN Sym("index_add", b, size, 0)
  ELSE Sym("scaled_index_add_" \o scaling, b, size, 0)

DropListReturned == ret.op = "drop_add_residual_stochastic_depth_list"

\* C15: drop_add_residual_stochastic_depth_list returns one tensor per input,
\* the i-th shaped like the i-th input; a row of element i that its subset
\* names is the input row plus exactly one residual, scaled by b_i / size_i
\* and equal to the residual of that same row of element i; every other row
\* is the input row
C15_ResidualPerOwnSegment ==
  DropListReturned =>
    /\ ret.raised = "none"
    /\ Len(ret.out) = Len(ret.x_list)
    /\ \A i \in 1..Len(ret.x_list) :
         LET x == ret.x_list[i]
             brange == ret.branges[i]
         IN  /\ Shape0(ret.out[i]) = Shape0(x)
             /\ \A q \in 1..Shape0(x) :
                  /\ Len(ret.out[i][q]) = Shape1(x)
                  /\ IF \E k \in 1..Len(brange) : brange[k] = q
                     THEN \A j \in 1..Shape1(x) :
                            ret.out[i][q][j] =
                              <<ScaledAdd(ret.scaling, Shape0(x), Len(brange))>>
                                \o x[q][j] \o OwnResidual(ret.kind, x, q)[j]
                     ELSE ret.out[i][q] = x[q]

\* two tensors of different shapes; the first keeps one of its two rows, and
\* that row is the second one
C15_Witness ==
  /\ DropListReturned
  /\ ret.raised = "none"
  /\ Len(ret.x_list) = 2
  /\ Shape0(ret.x_list[1]) = 2
  /\ Shape1(ret.x_list[1]) = 2
  /\ Shape1(ret.x_list[2]) = 1
  /\ ret.branges[1] = <<2>>
  /\ ret.kind = "attn"


====
